---- MODULE Spec2Model ----
(***************************************************************************)
(* Model of stasis' hybrid memory index (src/stasis/core/search.py) and of *)
(* the file layer that feeds it (src/stasis/core/memory.py).               *)
(*                                                                         *)
(* Text is represented at the granularity of atoms: a line is a sequence   *)
(* of atoms, each atom standing for a fixed run of characters (AtomLen);   *)
(* a text is the sequence of the lines that str.split('\n') yields, so the *)
(* empty text is << <<>> >> (one empty line) and '\n'.join is the inverse. *)
(* Line numbers are 0-based as in the code.                                *)
(***************************************************************************)
EXTENDS Integers, Sequences, FiniteSets, TLC

\* -------------------------------------------------------------------------
\* Bounds of the model
\* -------------------------------------------------------------------------
MaxAppends == 2
MaxPasses == 3
MaxTopK == 2
\* ... and of the stores searched in SpecSearch
SearchAppends == 1
SearchPasses == 2

\* -------------------------------------------------------------------------
\* Text
\* -------------------------------------------------------------------------
\* Number of characters an atom stands for.  "t1" and "t2" are
\* '%Y-%m-%d %H:%M' timestamps, "F319".."F1600" are long words without
\* whitespace.
AtomLen(a) ==
    CASE a = "t1" -> 16
      [] a = "t2" -> 16
      [] a = "alpha" -> 5
      [] a = "beta" -> 4
      [] a = "F319" -> 319
      [] a = "F800" -> 800
      [] a = "F1598" -> 1598
      [] a = "F1599" -> 1599
      [] a = "F1600" -> 1600
      [] OTHER -> 1

RECURSIVE LineLen(_)
\* len(line)
LineLen(line) ==
    IF line = <<>> THEN 0 ELSE AtomLen(Head(line)) + LineLen(Tail(line))

\* Atoms that the tokenizer of the full-text index keeps as terms.
IsWord(a) == a \notin {"[", "]", " ", "?"}

\* Position of the first atom of s that satisfies a = x, 0 if none.
RECURSIVE IndexOf(_, _)
IndexOf(s, x) ==
    IF s = <<>> THEN 0
    ELSE IF Head(s) = x THEN 1
    ELSE LET r == IndexOf(Tail(s), x) IN IF r = 0 THEN 0 ELSE r + 1

\* hashlib.md5(...).hexdigest(): a digest of the text, distinct texts giving
\* distinct digests; a digest is never a text.
Md5(text) == <<"md5", text>>

\* MemorySearch._hash_file: the digest of the bytes of the file.
HashFile(text) == Md5(text)

\* -------------------------------------------------------------------------
\* MemorySearch._chunk_content
\* -------------------------------------------------------------------------
chunk_size == 1600
overlap == 320

\* str(memory_path)
MemoryPath == "MEMORY.md"

\* line.startswith('[') and ']' in line
IsMarker(line) == line # <<>> /\ Head(line) = "[" /\ IndexOf(line, "]") # 0

\* line.split(']')[0][1:]
MarkerTimestamp(line) == SubSeq(line, 2, IndexOf(line, "]") - 1)

\* The inner loop over reversed(current_chunk): the shortest suffix of cur
\* whose accumulated length reaches overlap, or all of cur.  n lines are
\* already taken and weigh acc.
RECURSIVE OverlapFromStrict(_, _, _)
\* "if overlap_length > overlap": one line more when the length is exactly
\* overlap
OverlapFromStrict(cur, n, acc) ==
    IF n = Len(cur) THEN [lines |-> cur, length |-> acc]
    ELSE LET line == cur[Len(cur) - n]
             acc2 == acc + LineLen(line) + 1
         IN IF acc2 > overlap
            THEN [lines |-> SubSeq(cur, Len(cur) - n, Len(cur)), length |-> acc2]
            ELSE OverlapFromStrict(cur, n + 1, acc2)

RECURSIVE OverlapFrom(_, _, _)
OverlapFrom(cur, n, acc) ==
    IF n = Len(cur) THEN [lines |-> cur, length |-> acc]
    ELSE LET line == cur[Len(cur) - n]
             acc2 == acc + LineLen(line) + 1
         IN IF acc2 >= overlap
            THEN [lines |-> SubSeq(cur, Len(cur) - n, Len(cur)), length |-> acc2]
            ELSE OverlapFrom(cur, n + 1, acc2)

OverlapLines(cur) == OverlapFrom(cur, 0, 0)

\* 'line_end' one past the last line of the chunk (an exclusive end)
MkChunkExclusiveEnd(cur, source_file, line_start, line_end, timestamp) ==
    [content |-> cur, source_file |-> source_file, line_start |-> line_start,
     line_end |-> line_end + 1, timestamp |-> timestamp, content_hash |-> Md5(cur)]

MkChunk(cur, source_file, line_start, line_end, timestamp) ==
    [content |-> cur, source_file |-> source_file, line_start |-> line_start,
     line_end |-> line_end, timestamp |-> timestamp, content_hash |-> Md5(cur)]

\* The state of the loop before any line is read.
ChunkerInit ==
    [chunks |-> <<>>, current_chunk |-> <<>>, current_length |-> 0,
     line_start |-> 0, current_timestamp |-> <<>>]

\* current_timestamp cleared when a chunk is closed: the label is looked
\* for within the lines read since the last close only
ChunkerStepResetsTimestamp(st, i, line, source_file) ==
    LET ts == IF IsMarker(line) THEN MarkerTimestamp(line) ELSE st.current_timestamp
        cur == Append(st.current_chunk, line)
        length == st.current_length + LineLen(line) + 1
    IN IF length >= chunk_size
       THEN LET ov == OverlapLines(cur)
            IN [chunks |-> Append(st.chunks,
                                  MkChunk(cur, source_file, st.line_start, i, ts)),
                current_chunk |-> ov.lines,
                current_length |-> ov.length,
                line_start |-> i - Len(ov.lines) + 1,
                current_timestamp |-> <<>>]
       ELSE [chunks |-> st.chunks, current_chunk |-> cur, current_length |-> length,
             line_start |-> st.line_start, current_timestamp |-> ts]

\* line 328 left out: the next chunk keeps the line_start of the closed one
ChunkerStepKeepsStart(st, i, line, source_file) ==
    LET ts == IF IsMarker(line) THEN MarkerTimestamp(line) ELSE st.current_timestamp
        cur == Append(st.current_chunk, line)
        length == st.current_length + LineLen(line) + 1
    IN IF length >= chunk_size
       THEN LET ov == OverlapLines(cur)
            IN [chunks |-> Append(st.chunks,
                                  MkChunk(cur, source_file, st.line_start, i, ts)),
                current_chunk |-> ov.lines,
                current_length |-> ov.length,
                line_start |-> st.line_start,
                current_timestamp |-> ts]
       ELSE [chunks |-> st.chunks, current_chunk |-> cur, current_length |-> length,
             line_start |-> st.line_start, current_timestamp |-> ts]

\* One iteration of the loop over enumerate(lines): line i (0-based).
ChunkerStep(st, i, line, source_file) ==
    LET ts == IF IsMarker(line) THEN MarkerTimestamp(line) ELSE st.current_timestamp
        cur == Append(st.current_chunk, line)
        length == st.current_length + LineLen(line) + 1
    IN IF length >= chunk_size
       THEN LET ov == OverlapLines(cur)
            IN [chunks |-> Append(st.chunks,
                                  MkChunk(cur, source_file, st.line_start, i, ts)),
                current_chunk |-> ov.lines,
                current_length |-> ov.length,
                line_start |-> i - Len(ov.lines) + 1,
                current_timestamp |-> ts]
       ELSE [chunks |-> st.chunks, current_chunk |-> cur, current_length |-> length,
             line_start |-> st.line_start, current_timestamp |-> ts]

RECURSIVE ChunkerLoop(_, _, _, _)
ChunkerLoop(st, lines, i, source_file) ==
    IF i = Len(lines) THEN st
    ELSE ChunkerLoop(ChunkerStep(st, i, lines[i + 1], source_file), lines, i + 1,
                     source_file)

\* _chunk_content(content, source_file); content is the list content.split('\n')
ChunkContent(content, source_file) ==
    LET st == ChunkerLoop(ChunkerInit, content, 0, source_file)
    IN IF st.current_chunk # <<>>
       THEN Append(st.chunks,
                   MkChunk(st.current_chunk, source_file, st.line_start,
                           Len(content) - 1, st.current_timestamp))
       ELSE st.chunks

\* -------------------------------------------------------------------------
\* Rational numbers for the float scores; 0/0 is NaN
\* -------------------------------------------------------------------------
RECURSIVE Gcd(_, _)
Gcd(a, b) == IF b = 0 THEN a ELSE Gcd(b, a % b)

Abs(x) == IF x < 0 THEN -x ELSE x

NaN == [n |-> 0, d |-> 0]

IsNaN(x) == x.d = 0

\* n/d in lowest terms with a positive denominator; x/0 is taken for 0/0 only
Rat(n, d) ==
    IF d = 0 THEN NaN
    ELSE LET g == Gcd(Abs(n), Abs(d))
             sgn == IF d < 0 THEN -1 ELSE 1
         IN [n |-> sgn * (n \div g), d |-> sgn * (d \div g)]

RInt(i) == [n |-> i, d |-> 1]

RAdd(x, y) ==
    IF IsNaN(x) \/ IsNaN(y) THEN NaN ELSE Rat(x.n * y.d + y.n * x.d, x.d * y.d)

\* (p/q) * x
RScale(p, q, x) == IF IsNaN(x) THEN NaN ELSE Rat(p * x.n, q * x.d)

\* x / y
RDiv(x, y) == IF IsNaN(x) \/ IsNaN(y) THEN NaN ELSE Rat(x.n * y.d, x.d * y.n)

\* x < y as Python compares floats: False when either is NaN
RLess(x, y) == ~IsNaN(x) /\ ~IsNaN(y) /\ x.n * y.d < y.n * x.d

\* -------------------------------------------------------------------------
\* The embedding model (SentenceTransformer.encode), external to the
\* repository: a deterministic stand-in that maps a text to the vector of
\* the first topic word it holds and to the zero vector when it holds none.
\* The vectors have integer norms, so that the cosine is a rational.
\* -------------------------------------------------------------------------
VZero == <<0, 0, 0, 0>>
VAlpha == <<1, 2, 2, 4>>
VBeta == <<5, 0, 0, 0>>
VGamma == <<9, 3, 3, 1>>

RECURSIVE Flatten(_)
\* the atoms of a text, line after line
Flatten(text) == IF text = <<>> THEN <<>> ELSE Head(text) \o Flatten(Tail(text))

Encode(text) ==
    LET atoms == Flatten(text)
        a == IndexOf(atoms, "alpha")
        b == IndexOf(atoms, "beta")
    IN IF a # 0 /\ (b = 0 \/ a < b) THEN VAlpha
       ELSE IF b # 0 THEN VBeta
       ELSE VZero

\* -------------------------------------------------------------------------
\* The file layer: Memory.append_memory / Memory._append_file
\* -------------------------------------------------------------------------
\* The texts a <save_memory> tag can carry (stripped, not empty)
EntryAlpha == << <<"alpha", " ", "F800">>, <<"alpha", " ", "F800">> >>
EntryNote == << <<"F1600">> >>
Entries == {EntryAlpha, EntryNote}

Timestamps == {"t1"}

\* MEMORY.md when it does not exist: a text has at least one line
Missing == <<>>

\* the existence test answering True for a file that is not there
ExistsAlways(f) == TRUE

\* memory_path.exists()
Exists(f) == f # Missing

\* a + b for texts: the last line of a continues with the first line of b
TextConcat(a, b) ==
    SubSeq(a, 1, Len(a) - 1) \o <<a[Len(a)] \o b[1]>> \o Tail(b)

\* f'[{timestamp}]\n{content}'
MemoryEntry(timestamp, content) == << <<"[", timestamp, "]">> >> \o content

\* f.write(f'\n{content}\n') on a file opened with 'a': a missing file is
\* created empty first
AppendFile(f, entry) ==
    TextConcat(IF f = Missing THEN << <<>> >> ELSE f,
               << <<>> >> \o entry \o << <<>> >>)

\* -------------------------------------------------------------------------
\* The store: three tables of index.db
\* -------------------------------------------------------------------------
\* the content_hash values of the rows of a table
Hashes(table) == {table[i].content_hash : i \in 1..Len(table)}

\* the rows of a table whose content_hash is h
RowsOf(table, h) == {i \in 1..Len(table) : table[i].content_hash = h}

RECURSIVE DeleteHash(_, _)
\* the table without the rows whose content_hash is h
DeleteHash(table, h) ==
    IF table = <<>> THEN <<>>
    ELSE IF Head(table).content_hash = h THEN DeleteHash(Tail(table), h)
    ELSE <<Head(table)>> \o DeleteHash(Tail(table), h)

\* INSERT OR REPLACE INTO memory_fts: the FTS5 table declares no key, so
\* nothing conflicts and the row is added under a new rowid
FtsInsertOrReplace(table, chunk) ==
    Append(table, [content |-> chunk.content, source_file |-> chunk.source_file,
                   line_start |-> chunk.line_start, line_end |-> chunk.line_end,
                   timestamp |-> chunk.timestamp,
                   content_hash |-> chunk.content_hash])

\* the conflict taken on source_file: the rows of the file are replaced
EmbInsertReplacingSource(table, chunk, embedding) ==
    Append(SelectSeq(table, LAMBDA r : r.source_file # chunk.source_file),
           [content_hash |-> chunk.content_hash, embedding |-> embedding,
            content |-> chunk.content, source_file |-> chunk.source_file,
            line_start |-> chunk.line_start, line_end |-> chunk.line_end,
            timestamp |-> chunk.timestamp])

\* INSERT OR REPLACE INTO memory_embeddings: content_hash is UNIQUE, so a row
\* with the same hash is deleted and the new row gets the next id
EmbInsertOrReplace(table, chunk, embedding) ==
    Append(DeleteHash(table, chunk.content_hash),
           [content_hash |-> chunk.content_hash, embedding |-> embedding,
            content |-> chunk.content, source_file |-> chunk.source_file,
            line_start |-> chunk.line_start, line_end |-> chunk.line_end,
            timestamp |-> chunk.timestamp])

\* INSERT OR IGNORE: the row of a file that has one is kept as it is
MetaInsertOrIgnore(table, file_path, file_hash, now) ==
    IF \E r \in table : r.file_path = file_path THEN table
    ELSE table \cup {[file_path |-> file_path, file_hash |-> file_hash,
                      last_indexed |-> now]}

\* INSERT OR REPLACE INTO file_metadata: file_path is the primary key
MetaInsertOrReplace(table, file_path, file_hash, now) ==
    {r \in table : r.file_path # file_path}
        \cup {[file_path |-> file_path, file_hash |-> file_hash, last_indexed |-> now]}

\* _file_changed comparing the wrong column: every file looks changed
FileChangedAlways(table, file_path, current_hash) == TRUE

\* MemorySearch._file_changed
FileChanged(table, file_path, current_hash) ==
    LET rows == {r \in table : r.file_path = file_path}
    IN IF rows = {} THEN TRUE
       ELSE (CHOOSE r \in rows : TRUE).file_hash # current_hash

\* the gate without "not force and": force is ignored
ShouldIndexIgnoresForce(table, file_path, current_hash, force) ==
    FileChanged(table, file_path, current_hash)

\* the gate of index_memory_file: "if not force and not self._file_changed(...)"
\* returns early; ShouldIndex is its negation
ShouldIndex(table, file_path, current_hash, force) ==
    ~(~force /\ ~FileChanged(table, file_path, current_hash))

\* "if cursor.fetchone() and force: continue"
SkipChunkInverted(table, chunk, force) ==
    chunk.content_hash \in Hashes(table) /\ force

\* "if cursor.fetchone() and not force: continue"
SkipChunk(table, chunk, force) ==
    chunk.content_hash \in Hashes(table) /\ ~force

\* the second INSERT left out: the chunk reaches the FTS5 table only
WriteChunkFtsOnly(db, chunk) ==
    [fts |-> FtsInsertOrReplace(db.fts, chunk), emb |-> db.emb]

\* lines 135-164: embed the chunk and write it to both tables of the
\* connection's view db
WriteChunk(db, chunk) ==
    [fts |-> FtsInsertOrReplace(db.fts, chunk),
     emb |-> EmbInsertOrReplace(db.emb, chunk, Encode(chunk.content))]

\* one iteration of the loop of lines 126-166 when the embedding succeeds
LoopStep(db, chunk, force) ==
    IF SkipChunk(db.emb, chunk, force) THEN db ELSE WriteChunk(db, chunk)

\* -------------------------------------------------------------------------
\* MemorySearch.search: the lexical pass (FTS5 MATCH, bm25)
\* -------------------------------------------------------------------------
\* The terms of a MATCH expression made of bare words
QueryTokens(query) == SelectSeq(query, IsWord)

\* FTS5 rejects an expression without any term and one with a character
\* that is not part of its query syntax ('fts5: syntax error near ...'); the
\* '-' and ':' of a timestamp are read as operators ('no such column: ...')
FtsSyntaxError(query) ==
    \/ QueryTokens(query) = <<>>
    \/ \E i \in 1..Len(query) : query[i] \in {"?", "[", "]", "t1"}

RECURSIVE Count(_, _)
\* occurrences of x in s
Count(s, x) ==
    IF s = <<>> THEN 0
    ELSE (IF Head(s) = x THEN 1 ELSE 0) + Count(Tail(s), x)

\* Term frequency over the columns of a row of memory_fts.  MATCH on the
\* table name spans every column; the terms of source_file, line_start,
\* line_end and content_hash are none of the words queries are made of here.
Tf(row, term) == Count(Flatten(row.content), term) + Count(row.timestamp, term)

\* memory_fts MATCH ?: bare words are ANDed
Matches(row, query) ==
    \A i \in 1..Len(QueryTokens(query)) : Tf(row, QueryTokens(query)[i]) > 0

RECURSIVE SumTf(_, _)
SumTf(row, terms) ==
    IF terms = <<>> THEN 0 ELSE Tf(row, Head(terms)) + SumTf(row, Tail(terms))

\* bm25(memory_fts): negative, the more negative the better the match.  The
\* magnitude stands for FTS5's real-valued score: it grows with the term
\* frequency and is never 0 for a row that matches.
Bm25(row, query) == 0 - SumTf(row, QueryTokens(query))

RECURSIVE InsertByScore(_, _)
\* ORDER BY bm25_score: ascending, rows of equal score in rowid order
InsertByScore(sorted, hit) ==
    IF sorted = <<>> THEN <<hit>>
    ELSE IF hit.bm25 < Head(sorted).bm25 THEN <<hit>> \o sorted
    ELSE <<Head(sorted)>> \o InsertByScore(Tail(sorted), hit)

RECURSIVE OrderByScore(_, _)
OrderByScore(hits, sorted) ==
    IF hits = <<>> THEN sorted
    ELSE OrderByScore(Tail(hits), InsertByScore(sorted, Head(hits)))

\* LIMIT n: a negative n is no limit
Limit(rows, n) == IF n < 0 \/ n >= Len(rows) THEN rows ELSE SubSeq(rows, 1, n)

RECURSIVE MatchingRows(_, _)
MatchingRows(table, query) ==
    IF table = <<>> THEN <<>>
    ELSE (IF Matches(Head(table), query)
          THEN <<[row |-> Head(table), bm25 |-> Bm25(Head(table), query)]>>
          ELSE <<>>) \o MatchingRows(Tail(table), query)

\* The SELECT of lines 197-203 when it does not fail.  With LIMIT 0 the
\* MATCH expression is never evaluated.
FtsSelect(table, query, limit) ==
    IF limit = 0 THEN <<>>
    ELSE Limit(OrderByScore(MatchingRows(table, query), <<>>), limit)

\* ... and whether it raises sqlite3.OperationalError
FtsSelectRaises(query, limit) == limit # 0 /\ FtsSyntaxError(query)

RECURSIVE DictPut(_, _)
\* d[key] = value for a dict kept as the sequence of its items: a key that
\* is present keeps its place and takes the new value
DictPut(d, item) ==
    IF d = <<>> THEN <<item>>
    ELSE IF Head(d).content = item.content THEN <<item>> \o Tail(d)
    ELSE <<Head(d)>> \o DictPut(Tail(d), item)

RECURSIVE Bm25Dict(_, _)
\* the dict comprehension of lines 205-215, keyed by content
Bm25Dict(hits, d) ==
    IF hits = <<>> THEN d
    ELSE Bm25Dict(Tail(hits),
                  DictPut(d, [content |-> Head(hits).row.content,
                              source_file |-> Head(hits).row.source_file,
                              line_start |-> Head(hits).row.line_start,
                              line_end |-> Head(hits).row.line_end,
                              timestamp |-> Head(hits).row.timestamp,
                              bm25_score |-> Abs(Head(hits).bm25)]))

\* -------------------------------------------------------------------------
\* MemorySearch.search: the vector pass
\* -------------------------------------------------------------------------
RECURSIVE Dot(_, _)
\* np.dot
Dot(u, v) ==
    IF u = <<>> THEN 0 ELSE Head(u) * Head(v) + Dot(Tail(u), Tail(v))

\* np.linalg.norm for vectors whose norm is an integer
Norm(v) == CHOOSE n \in 0..Dot(v, v) : n * n = Dot(v, v)

\* lines 226-228: no guard, so 0/0 is NaN (numpy warns and goes on)
CosineSimilarity(query_embedding, embedding) ==
    Rat(Dot(query_embedding, embedding), Norm(query_embedding) * Norm(embedding))

RECURSIVE VectorDict(_, _, _)
\* the loop of lines 220-237 over the rows of memory_embeddings
VectorDict(table, query_embedding, d) ==
    IF table = <<>> THEN d
    ELSE VectorDict(Tail(table), query_embedding,
                    DictPut(d, [content |-> Head(table).content,
                                source_file |-> Head(table).source_file,
                                line_start |-> Head(table).line_start,
                                line_end |-> Head(table).line_end,
                                timestamp |-> Head(table).timestamp,
                                vector_score |->
                                    CosineSimilarity(query_embedding,
                                                     Head(table).embedding)]))

\* -------------------------------------------------------------------------
\* MemorySearch.search: fusion and ranking
\* -------------------------------------------------------------------------
Keys(d) == {d[i].content : i \in 1..Len(d)}

Get(d, key) == d[CHOOSE i \in 1..Len(d) : d[i].content = key]

\* max(r['bm25_score'] for r in bm25_results.values())
MaxBm25(bm25_results) ==
    CHOOSE m \in {bm25_results[i].bm25_score : i \in 1..Len(bm25_results)} :
        \A i \in 1..Len(bm25_results) : bm25_results[i].bm25_score <= m

\* the weights the wrong way round: 0.3 vector + 0.7 BM25
HybridScoreSwapped(bm25_results, vector_results, key) ==
    LET raw == IF key \in Keys(bm25_results)
               THEN Get(bm25_results, key).bm25_score ELSE 0
        vector_score == IF key \in Keys(vector_results)
                        THEN Get(vector_results, key).vector_score ELSE RInt(0)
        bm25_score == IF bm25_results # <<>>
                      THEN (IF MaxBm25(bm25_results) > 0
                            THEN Rat(raw, MaxBm25(bm25_results)) ELSE RInt(0))
                      ELSE RInt(raw)
    IN RAdd(RScale(3, 10, vector_score), RScale(7, 10, bm25_score))

\* lines 246-254 for one content
HybridScore(bm25_results, vector_results, key) ==
    LET raw == IF key \in Keys(bm25_results)
               THEN Get(bm25_results, key).bm25_score ELSE 0
        vector_score == IF key \in Keys(vector_results)
                        THEN Get(vector_results, key).vector_score ELSE RInt(0)
        bm25_score == IF bm25_results # <<>>
                      THEN (IF MaxBm25(bm25_results) > 0
                            THEN Rat(raw, MaxBm25(bm25_results)) ELSE RInt(0))
                      ELSE RInt(raw)
    IN RAdd(RScale(7, 10, vector_score), RScale(3, 10, bm25_score))

\* lines 242-258: the dict combined, as the set of its values
Combined(bm25_results, vector_results) ==
    {LET data == IF key \in Keys(bm25_results) THEN Get(bm25_results, key)
                 ELSE Get(vector_results, key)
     IN [content |-> key, source_file |-> data.source_file,
         line_start |-> data.line_start, line_end |-> data.line_end,
         timestamp |-> data.timestamp,
         hybrid_score |-> HybridScore(bm25_results, vector_results, key)]
     : key \in Keys(bm25_results) \cup Keys(vector_results)}

\* Whether sorted(..., reverse=True) can put x before all of rest.  The
\* sort is stable and its input order is the iteration order of a set of
\* strings, which differs from process to process: equal scores come out in
\* any order.  NaN compares False with everything, so with a NaN among the
\* scores the order the sort leaves is not constrained here.
CanLead(x, rest, all) ==
    \/ \E y \in all : IsNaN(y.hybrid_score)
    \/ \A y \in rest : ~RLess(x.hybrid_score, y.hybrid_score)

RECURSIVE RankedFrom(_, _, _)
\* the first n items (all of them when n < 0) of the orders the sort can leave
RankedFrom(rest, all, n) ==
    IF rest = {} \/ n = 0 THEN {<<>>}
    ELSE UNION {{<<x>> \o tl : tl \in RankedFrom(rest \ {x}, all, n - 1)}
                : x \in {y \in rest : CanLead(y, rest \ {y}, all)}}

\* seq[:n]
Slice(seq, n) ==
    IF n >= 0 THEN SubSeq(seq, 1, IF n < Len(seq) THEN n ELSE Len(seq))
    ELSE SubSeq(seq, 1, IF Len(seq) + n > 0 THEN Len(seq) + n ELSE 0)

\* line 261: the lists sorted(combined.values(), key=hybrid_score,
\* reverse=True)[:top_k] can be
Ranked(combined, n) ==
    IF n >= 0 THEN RankedFrom(combined, combined, n)
    ELSE {Slice(r, n) : r \in RankedFrom(combined, combined, n)}

\* lines 263-273
ToSearchResults(ranked) ==
    [i \in 1..Len(ranked) |->
        [content |-> ranked[i].content, score |-> ranked[i].hybrid_score,
         line_start |-> ranked[i].line_start, line_end |-> ranked[i].line_end,
         timestamp |-> ranked[i].timestamp, source_file |-> ranked[i].source_file]]

\* The queries and result counts callers ask for
Queries == {<<>>, <<" ">>, <<"alpha">>, <<"beta">>, <<"F1600">>, <<"alpha", "?">>}
TopKs == 0..MaxTopK

\* -------------------------------------------------------------------------
\* State
\* -------------------------------------------------------------------------
VARIABLES
    file,           \* MEMORY.md: Missing or its text
    appends,        \* number of append_memory calls so far
    memory_fts,     \* committed rows of the FTS5 table, in rowid order
    memory_embeddings, \* committed rows of the embeddings table, in id order
    file_metadata,  \* committed rows of the metadata table
    clock,          \* datetime('now'): the number of index passes begun
    pc,             \* where index_memory_file stands
    force,          \* its argument
    current_hash,   \* its locals ...
    content,
    k,              \* number of chunks the loop has passed
    tx_fts,         \* the FTS5 table as its connection sees it (uncommitted)
    tx_emb,         \* the embeddings table as its connection sees it
    indexed_count,
    encode_calls,   \* encode calls made by the current or last index pass
    result,         \* how the last index_memory_file call ended
    indexed_text,   \* history: the text chunked by the last pass that committed
    aborted_text,   \* history: the text read by the pass that raised, when the
                    \* current or last call is the first one after it
    spc,            \* where search stands
    query,          \* its arguments ...
    top_k,
    query_embedding, \* ... and locals
    bm25_results,
    sresult,        \* what the last search call returned or raised
    cpc,            \* where a lone _chunk_content call stands
    doc_lines,      \* its lines = content.split('\n')
    i_line,         \* its loop index i
    chunker,        \* its other locals
    chunk_list      \* the list it returned

vars == <<file, appends, memory_fts, memory_embeddings, file_metadata, clock, pc,
          force, current_hash, content, k, tx_fts, tx_emb, indexed_count,
          encode_calls, result, indexed_text, aborted_text, spc, query, top_k, query_embedding, bm25_results,
          sresult, cpc, doc_lines, i_line, chunker, chunk_list>>

indexer == <<clock, pc, force, current_hash, content, k, tx_fts, tx_emb,
             indexed_count, encode_calls, result, indexed_text, aborted_text>>
searcher == <<spc, query, top_k, query_embedding, bm25_results, sresult>>
store == <<memory_fts, memory_embeddings, file_metadata>>
chunking == <<cpc, doc_lines, i_line, chunker, chunk_list>>
NoHash == <<"md5", "none">>

Init ==
    /\ file = Missing
    /\ appends = 0
    /\ memory_fts = <<>>
    /\ memory_embeddings = <<>>
    /\ file_metadata = {}
    /\ clock = 0
    /\ pc = "idle"
    /\ force = FALSE
    /\ current_hash = NoHash
    /\ content = <<>>
    /\ k = 0
    /\ tx_fts = <<>>
    /\ tx_emb = <<>>
    /\ indexed_count = 0
    /\ encode_calls = 0
    /\ result = "none"
    /\ indexed_text = Missing
    /\ aborted_text = Missing
    /\ spc = "idle"
    /\ query = <<>>
    /\ top_k = 0
    /\ query_embedding = VZero
    /\ bm25_results = <<>>
    /\ sresult = [status |-> "none", results |-> <<>>]
    /\ cpc = "idle"
    /\ doc_lines = <<>>
    /\ i_line = 0
    /\ chunker = ChunkerInit
    /\ chunk_list = <<>>

\* the locals of index_memory_file once it has returned or raised
Return(how) ==
    /\ pc' = "idle"
    /\ current_hash' = NoHash
    /\ content' = <<>>
    /\ k' = 0
    /\ tx_fts' = <<>>
    /\ tx_emb' = <<>>
    /\ indexed_count' = 0
    /\ result' = how

\* Memory.append_memory, from any process that shares the workspace
AppendMemory ==
    /\ appends < MaxAppends
    /\ \E ts \in Timestamps, entry \in Entries :
          file' = AppendFile(file, MemoryEntry(ts, entry))
    /\ appends' = appends + 1
    /\ UNCHANGED <<store, indexer, searcher>>
    /\ UNCHANGED chunking

\* index_memory_file, lines 104-113: the file is missing
IndexMissing ==
    /\ pc = "idle"
    /\ clock < MaxPasses
    /\ ~Exists(file)
    /\ force' \in BOOLEAN
    /\ clock' = clock + 1
    /\ encode_calls' = 0
    /\ Return("missing")
    /\ aborted_text' = IF result = "raised" THEN aborted_text ELSE Missing
    /\ UNCHANGED <<file, appends, store, indexed_text, searcher>>
    /\ UNCHANGED chunking

\* index_memory_file, lines 104-113: hash the file and pass the change gate
IndexBegin ==
    /\ pc = "idle"
    /\ clock < MaxPasses
    /\ Exists(file)
    /\ clock' = clock + 1
    /\ encode_calls' = 0
    /\ \E f \in BOOLEAN :
          /\ force' = f
          /\ IF ShouldIndex(file_metadata, MemoryPath, HashFile(file), f)
             THEN /\ pc' = "read"
                  /\ current_hash' = HashFile(file)
                  /\ result' = "none"
                  /\ UNCHANGED <<content, k, tx_fts, tx_emb, indexed_count>>
             ELSE Return("unchanged")
    /\ aborted_text' = IF result = "raised" THEN aborted_text ELSE Missing
    /\ UNCHANGED <<file, appends, store, indexed_text, searcher>>
    /\ UNCHANGED chunking

\* lines 115-123: read the file again, chunk it, open the connection
IndexRead ==
    /\ pc = "read"
    /\ content' = file
    /\ k' = 0
    /\ tx_fts' = memory_fts
    /\ tx_emb' = memory_embeddings
    /\ indexed_count' = 0
    /\ pc' = "loop"
    /\ UNCHANGED <<force, current_hash, result>>
    /\ UNCHANGED <<file, appends, store, clock, encode_calls, indexed_text,
                   aborted_text, searcher>>
    /\ UNCHANGED chunking

chunks == ChunkContent(content, MemoryPath)

\* lines 126-133: the chunk is already indexed and force is not set
IndexSkipChunk ==
    /\ pc = "loop"
    /\ k < Len(chunks)
    /\ SkipChunk(tx_emb, chunks[k + 1], force)
    /\ k' = k + 1
    /\ UNCHANGED <<file, appends, store, clock, pc, force, current_hash, content,
                   tx_fts, tx_emb, indexed_count, encode_calls, result, indexed_text,
                   aborted_text,
                   searcher>>
    /\ UNCHANGED chunking

\* lines 135-166: embed the chunk and write it to both tables
IndexChunk ==
    /\ pc = "loop"
    /\ k < Len(chunks)
    /\ ~SkipChunk(tx_emb, chunks[k + 1], force)
    /\ encode_calls' = encode_calls + 1
    /\ tx_fts' = WriteChunk([fts |-> tx_fts, emb |-> tx_emb], chunks[k + 1]).fts
    /\ tx_emb' = WriteChunk([fts |-> tx_fts, emb |-> tx_emb], chunks[k + 1]).emb
    /\ indexed_count' = indexed_count + 1
    /\ k' = k + 1
    /\ UNCHANGED <<file, appends, store, clock, pc, force, current_hash, content,
                   result, indexed_text, aborted_text, searcher>>
    /\ UNCHANGED chunking

\* line 136: the embedding call raises; the connection is dropped with its
\* transaction open, which rolls it back
IndexEmbedFails ==
    /\ pc = "loop"
    /\ k < Len(chunks)
    /\ ~SkipChunk(tx_emb, chunks[k + 1], force)
    /\ encode_calls' = encode_calls + 1
    /\ aborted_text' = content
    /\ Return("raised")
    /\ UNCHANGED <<file, appends, store, clock, force, indexed_text, searcher>>
    /\ UNCHANGED chunking

\* lines 168-175: write the metadata and commit the transaction
IndexCommit ==
    /\ pc = "loop"
    /\ k = Len(chunks)
    /\ memory_fts' = tx_fts
    /\ memory_embeddings' = tx_emb
    /\ file_metadata' = MetaInsertOrReplace(file_metadata, MemoryPath, current_hash, clock)
    /\ indexed_text' = content
    /\ Return("indexed")
    /\ UNCHANGED <<file, appends, clock, force, encode_calls, aborted_text, searcher>>
    /\ UNCHANGED chunking

\* search returns results or raises
SearchReturn(status, results) ==
    /\ spc' = "idle"
    /\ sresult' = [status |-> status, results |-> results]

\* search, lines 190-215: embed the query and run the lexical SELECT
SearchLexical ==
    /\ spc = "idle"
    /\ \E q \in Queries, n \in TopKs :
          /\ query' = q
          /\ top_k' = n
          /\ query_embedding' = Encode(<<q>>)
          /\ IF FtsSelectRaises(q, n * 2)
             THEN /\ bm25_results' = <<>>
                  /\ SearchReturn("raised", <<>>)
             ELSE /\ spc' = "vector"
                  /\ bm25_results' = Bm25Dict(FtsSelect(memory_fts, q, n * 2), <<>>)
                  /\ sresult' = [status |-> "none", results |-> <<>>]
    /\ UNCHANGED <<file, appends, store, indexer>>
    /\ UNCHANGED chunking

\* search, lines 217-273: scan the vectors, fuse, rank, return
SearchVector ==
    /\ spc = "vector"
    /\ \E ranked \in Ranked(Combined(bm25_results,
                                    VectorDict(memory_embeddings, query_embedding, <<>>)),
                           top_k) :
          SearchReturn("ok", ToSearchResults(ranked))
    /\ UNCHANGED <<file, appends, store, indexer, query, top_k, query_embedding,
                   bm25_results>>
    /\ UNCHANGED chunking

Next ==
    \/ AppendMemory
    \/ IndexMissing
    \/ IndexBegin
    \/ IndexRead
    \/ IndexSkipChunk
    \/ IndexChunk
    \/ IndexEmbedFails
    \/ IndexCommit

\* The file layer and the indexer (the writer side of the store)
Spec == Init /\ [][Next]_vars

\* -------------------------------------------------------------------------
\* Properties of the indexer (Spec)
\* -------------------------------------------------------------------------
\* a step that begins an index_memory_file call
IndexCall == clock' = clock + 1

\* the metadata table holds a row for MEMORY.md with this hash
StoredHashIs(h) == \E r \in file_metadata : r.file_path = MemoryPath /\ r.file_hash = h

\* C1: once a pass over a text has committed (the text was the same when it
\* was hashed and when it was read), a call without force on the same text
\* returns at the change gate: no embedding call, the three tables as they
\* were.
C1_IdempotentIndexing ==
    [][(/\ IndexCall
        /\ result = "indexed"
        /\ indexed_text = file
        /\ StoredHashIs(HashFile(indexed_text))
        /\ ~force')
       => (/\ pc' = "idle"
           /\ result' = "unchanged"
           /\ encode_calls' = 0
           /\ memory_fts' = memory_fts
           /\ memory_embeddings' = memory_embeddings
           /\ file_metadata' = file_metadata)]_vars

\* the second call has returned "unchanged" right after the committed pass
C1_Witness ==
    /\ result = "unchanged"
    /\ ~force
    /\ indexed_text = file
    /\ memory_embeddings # <<>>
    /\ encode_calls = 0

\* C2: the call goes on to index exactly when the metadata table has no row
\* for the file, or force is set, or the stored hash differs from the hash
\* of the file; otherwise it returns; the tables are the same after the
\* decision.
C2_ChangeDetection ==
    [][(IndexCall /\ file # Missing)
       => (/\ (pc' = "read") <=>
                 (\/ ~\E r \in file_metadata : r.file_path = MemoryPath
                  \/ force'
                  \/ \E r \in file_metadata :
                        r.file_path = MemoryPath /\ r.file_hash # HashFile(file))
           /\ (pc' # "read") => (pc' = "idle" /\ result' = "unchanged")
           /\ memory_fts' = memory_fts
           /\ memory_embeddings' = memory_embeddings
           /\ file_metadata' = file_metadata)]_vars

\* a forced call has passed the gate although the stored hash is current
C2_Witness ==
    /\ pc = "read"
    /\ force
    /\ StoredHashIs(current_hash)
    /\ current_hash = HashFile(file)

\* C3: every content_hash has at most one row in the FTS5 table and at most
\* one row in the embeddings table.
C3_DedupByContent ==
    /\ \A h \in Hashes(memory_fts) : Cardinality(RowsOf(memory_fts, h)) <= 1
    /\ \A h \in Hashes(memory_embeddings) :
          Cardinality(RowsOf(memory_embeddings, h)) <= 1

\* C4: the committed tables, which are all a query reads, hold the same set
\* of content hashes, also while a pass has uncommitted writes.
C4_DualIndexConsistency == Hashes(memory_fts) = Hashes(memory_embeddings)

\* a pass is in flight with writes no query sees yet, over a store that is
\* not empty
C4_Witness ==
    /\ pc = "loop"
    /\ memory_embeddings # <<>>
    /\ Hashes(tx_emb) # Hashes(memory_embeddings)
    /\ Hashes(tx_fts) # Hashes(memory_fts)

\* C5: when the embedding call raises, the chunks the pass had written are
\* in both committed tables after the abort.
C5_PartialProgressKept ==
    [][(pc = "loop" /\ pc' = "idle" /\ result' = "raised")
       => (/\ Hashes(tx_fts) \subseteq Hashes(memory_fts')
           /\ Hashes(tx_emb) \subseteq Hashes(memory_embeddings'))]_vars

\* C6: the metadata row exists exactly when a pass has committed, and its
\* file_hash is the digest of the text that pass chunked.
C6_MetadataInvariant ==
    /\ (file_metadata = {}) <=> (indexed_text = Missing)
    /\ \A r \in file_metadata : r.file_hash = HashFile(indexed_text)

\* C7: in a pass without force, a chunk whose hash the store holds when the
\* loop reaches it is passed without an embedding call and without a write
\* to either table; an embedding call is made only for a chunk whose hash
\* the store does not hold.
C7_DedupFastPath ==
    [][(/\ pc = "loop"
        /\ k < Len(chunks)
        /\ ~force
        /\ (k' # k \/ pc' # pc))
       => IF chunks[k + 1].content_hash \in Hashes(tx_fts) \cup Hashes(tx_emb)
          THEN /\ encode_calls' = encode_calls
               /\ tx_fts' = tx_fts
               /\ tx_emb' = tx_emb
               /\ k' = k + 1
               /\ pc' = "loop"
          ELSE encode_calls' = encode_calls + 1]_vars

\* a pass without force has passed one chunk on the fast path and embedded
\* another
C7_Witness ==
    /\ pc = "loop"
    /\ ~force
    /\ indexed_count > 0
    /\ k > indexed_count
    /\ encode_calls = indexed_count

\* C16: no step takes a content hash out of the committed FTS5 table or out
\* of the committed embeddings table.
C16_NeverDeleted ==
    [][/\ Hashes(memory_fts) \subseteq Hashes(memory_fts')
       /\ Hashes(memory_embeddings) \subseteq Hashes(memory_embeddings')]_vars

\* a pass has indexed the text as it is now, and both tables still hold a
\* chunk of an older text that is no chunk of this one
C16_Witness ==
    /\ pc = "idle"
    /\ result = "indexed"
    /\ indexed_text = file
    /\ \E h \in Hashes(memory_fts) \cap Hashes(memory_embeddings) :
          \A j \in 1..Len(ChunkContent(file, MemoryPath)) :
             ChunkContent(file, MemoryPath)[j].content_hash # h

\* an aborted pass leaves the metadata table as it was
AbortKeepsMetadata ==
    (pc = "loop" /\ result' = "raised") => file_metadata' = file_metadata

\* a call without force that follows an aborted pass, on the text that pass
\* read
CallAfterAbort ==
    /\ IndexCall
    /\ result = "raised"
    /\ ~force'
    /\ file = aborted_text

\* the call without force that followed an aborted pass commits, the text
\* still being the one the aborted pass read: every chunk of the text is in
\* both tables and file_hash is the digest of the text
RerunCompletes ==
    (/\ pc = "loop"
     /\ result' = "indexed"
     /\ ~force
     /\ file = aborted_text)
    => /\ \A j \in 1..Len(ChunkContent(file, MemoryPath)) :
             ChunkContent(file, MemoryPath)[j].content_hash
                 \in Hashes(memory_fts') \cap Hashes(memory_embeddings')
       /\ \A r \in file_metadata' :
             r.file_path = MemoryPath => r.file_hash = HashFile(file)
       /\ \E r \in file_metadata' : r.file_path = MemoryPath

\* C19 as stated: an aborted pass leaves the metadata as it was; the next
\* call without force on the same text passes the change gate; when that
\* call commits, every chunk of the text is in both tables and file_hash is
\* the digest of the text.
C19_RecoveryAsStated ==
    [][/\ AbortKeepsMetadata
       /\ CallAfterAbort => pc' = "read"
       /\ RerunCompletes]_vars

\* C19 amended: the next call without force passes the change gate unless
\* the metadata already holds the digest of the text, which is so only
\* after an aborted pass that was forced; the rest as stated.
C19_RecoveryAfterAbort ==
    [][/\ AbortKeepsMetadata
       /\ CallAfterAbort =>
             /\ (pc' = "read") <=> ~StoredHashIs(HashFile(file))
             /\ ~force => pc' = "read"
       /\ RerunCompletes]_vars

\* the call without force that followed an aborted pass has embedded chunks
\* and committed, on the text the aborted pass read
C19_Witness ==
    /\ pc = "idle"
    /\ result = "indexed"
    /\ ~force
    /\ aborted_text = file
    /\ encode_calls > 0
    /\ StoredHashIs(HashFile(file))

\* -------------------------------------------------------------------------
\* search over the stores that index passes leave
\* -------------------------------------------------------------------------
RECURSIVE PassLoop(_, _, _)
\* the loop of lines 126-166 over all the chunks, no embedding call failing
PassLoop(db, chunkSeq, f) ==
    IF chunkSeq = <<>> THEN db
    ELSE PassLoop(LoopStep(db, Head(chunkSeq), f), Tail(chunkSeq), f)

\* the committed state after a pass over the text of w.file that ran to its
\* commit
AfterPass(w, f) ==
    LET db == PassLoop([fts |-> w.fts, emb |-> w.emb],
                       ChunkContent(w.file, MemoryPath), f)
    IN [w EXCEPT !.fts = db.fts, !.emb = db.emb,
                 !.meta = MetaInsertOrReplace(w.meta, MemoryPath, HashFile(w.file),
                                              w.clock),
                 !.clock = w.clock + 1, !.indexed_text = w.file]

RECURSIVE Worlds(_)
\* the file and the committed tables that appends and completed passes, in
\* any order and within the bounds, lead to from w
Worlds(w) ==
    {w}
    \cup (IF w.appends < SearchAppends
          THEN UNION {Worlds([w EXCEPT !.file = AppendFile(w.file, MemoryEntry(ts, e)),
                                       !.appends = w.appends + 1])
                      : ts \in Timestamps, e \in Entries}
          ELSE {})
    \cup (IF w.clock < SearchPasses /\ w.file # Missing
          THEN UNION {Worlds(AfterPass(w, f)) : f \in BOOLEAN}
          ELSE {})

World0 ==
    [file |-> Missing, appends |-> 0, fts |-> <<>>, emb |-> <<>>, meta |-> {},
     clock |-> 0, indexed_text |-> Missing]

IdleIndexer ==
    /\ pc = "idle"
    /\ force = FALSE
    /\ current_hash = NoHash
    /\ content = <<>>
    /\ k = 0
    /\ tx_fts = <<>>
    /\ tx_emb = <<>>
    /\ indexed_count = 0
    /\ encode_calls = 0
    /\ result = "none"
    /\ aborted_text = Missing

IdleSearch ==
    /\ spc = "idle"
    /\ query = <<>>
    /\ top_k = 0
    /\ query_embedding = VZero
    /\ bm25_results = <<>>
    /\ sresult = [status |-> "none", results |-> <<>>]

IdleChunker ==
    /\ cpc = "idle"
    /\ doc_lines = <<>>
    /\ i_line = 0
    /\ chunker = ChunkerInit
    /\ chunk_list = <<>>

InitSearch ==
    /\ \E w \in Worlds(World0) :
          /\ file = w.file
          /\ appends = w.appends
          /\ memory_fts = w.fts
          /\ memory_embeddings = w.emb
          /\ file_metadata = w.meta
          /\ clock = w.clock
          /\ indexed_text = w.indexed_text
    /\ IdleIndexer
    /\ IdleSearch
    /\ IdleChunker

NextSearch ==
    \/ SearchLexical
    \/ SearchVector

\* search (the reader side), on every store the writer side can leave
SpecSearch == InitSearch /\ [][NextSearch]_vars

\* -------------------------------------------------------------------------
\* Properties of search (SpecSearch)
\* -------------------------------------------------------------------------
\* C8: a search whose query text is empty or only whitespace returns the
\* empty list and does not raise.
C8_MalformedQuery ==
    (/\ spc = "idle"
     /\ sresult.status # "none"
     /\ \A i \in 1..Len(query) : query[i] = " ")
    => sresult = [status |-> "ok", results |-> <<>>]

\* C9: the similarity of an all-zero stored embedding, and of any stored
\* embedding with an all-zero query embedding, is 0, and no returned score
\* is NaN.
C9_ZeroVectorGuard ==
    /\ spc = "vector" =>
          \A i \in 1..Len(memory_embeddings) :
             (memory_embeddings[i].embedding = VZero \/ query_embedding = VZero)
             => CosineSimilarity(query_embedding, memory_embeddings[i].embedding)
                    = RInt(0)
    /\ \A i \in 1..Len(sresult.results) : ~IsNaN(sresult.results[i].score)

\* C18: on a store without any row, a search with a query that is not empty
\* returns the empty list and does not raise.
C18_EmptyCorpus ==
    (/\ spc = "idle"
     /\ sresult.status # "none"
     /\ \E i \in 1..Len(query) : query[i] # " "
     /\ memory_fts = <<>>
     /\ memory_embeddings = <<>>)
    => sresult = [status |-> "ok", results |-> <<>>]

\* the fused candidates of the search that has just returned
Candidates ==
    Combined(bm25_results, VectorDict(memory_embeddings, query_embedding, <<>>))

\* C11: a search returns at most top_k results, each score at least the
\* next one, and no candidate that is left out has a higher score than one
\* that is returned.
C11_TopKRanking ==
    sresult.status = "ok" =>
    LET res == sresult.results
        Geq(x, y) == ~IsNaN(x) /\ ~IsNaN(y) /\ x.n * y.d >= y.n * x.d
        out == {c \in Candidates : \A i \in 1..Len(res) : res[i].content # c.content}
    IN /\ Len(res) <= top_k
       /\ \A i \in 1..(Len(res) - 1) : Geq(res[i].score, res[i + 1].score)
       /\ \A c \in out : \A i \in 1..Len(res) : Geq(res[i].score, c.hybrid_score)

\* C12: the result of a search is a function of the query, top_k and the
\* store: no other ordered result can come out of the same search.  Stated
\* for the searches without a NaN score, where the sort is a total preorder
\* and only equal scores are left to the iteration order of all_contents.
C12_RankingDeterminism ==
    (/\ sresult.status = "ok"
     /\ \A c \in Candidates : ~IsNaN(c.hybrid_score)) =>
    \A ranked \in Ranked(Candidates, top_k) : ToSearchResults(ranked) = sresult.results

\* -------------------------------------------------------------------------
\* the indexer when MEMORY.md has been removed from the workspace while
\* .stasis/index.db, with what earlier passes committed, is still there
\* -------------------------------------------------------------------------
InitUnavailable ==
    /\ \E w \in Worlds(World0) :
          /\ appends = w.appends
          /\ memory_fts = w.fts
          /\ memory_embeddings = w.emb
          /\ file_metadata = w.meta
          /\ clock = w.clock
          /\ indexed_text = w.indexed_text
    /\ file = Missing
    /\ IdleIndexer
    /\ IdleSearch
    /\ IdleChunker

SpecUnavailable == InitUnavailable /\ [][Next]_vars

\* C17: a call that finds no MEMORY.md returns without raising and without
\* an embedding call, and the three tables are as they were, whatever force
\* is.
C17_SourceUnavailable ==
    [][(IndexCall /\ file = Missing)
       => (/\ pc' = "idle"
           /\ result' = "missing"
           /\ encode_calls' = 0
           /\ memory_fts' = memory_fts
           /\ memory_embeddings' = memory_embeddings
           /\ file_metadata' = file_metadata)]_vars

\* a forced call has returned on a missing file over a store that is not
\* empty
C17_Witness ==
    /\ file = Missing
    /\ result = "missing"
    /\ force
    /\ memory_fts # <<>>
    /\ memory_embeddings # <<>>
    /\ file_metadata # {}

\* -------------------------------------------------------------------------
\* the vector pass and the fusion on their own: the embeddings are those an
\* embedding model may give and the lexical scores those bm25 may give
\* -------------------------------------------------------------------------
ChunkA == MkChunk(<< <<"alpha">> >>, MemoryPath, 0, 0, <<>>)
ChunkB == MkChunk(<< <<"beta">> >>, MemoryPath, 0, 0, <<>>)

Vectors == {VZero, VAlpha, VBeta, VGamma}
LexScores == {1, 10}

\* the row of memory_fts / memory_embeddings of a chunk
FtsRow(chunk) == FtsInsertOrReplace(<<>>, chunk)[1]
EmbRow(chunk, embedding) == EmbInsertOrReplace(<<>>, chunk, embedding)[1]

\* the entry of bm25_results of a row that matches with score -x
LexItem(chunk, x) == Bm25Dict(<<[row |-> FtsRow(chunk), bm25 |-> 0 - x]>>, <<>>)[1]

InitFusion ==
    /\ file = Missing
    /\ appends = 0
    /\ clock = 0
    /\ file_metadata = {}
    /\ indexed_text = Missing
    /\ IdleIndexer
    /\ IdleChunker
    /\ \E cs \in {<<>>, <<ChunkA>>, <<ChunkB>>, <<ChunkA, ChunkB>>} :
          /\ memory_fts = [i \in 1..Len(cs) |-> FtsRow(cs[i])]
          /\ \E es \in [1..Len(cs) -> Vectors] :
                memory_embeddings = [i \in 1..Len(cs) |-> EmbRow(cs[i], es[i])]
          /\ \E hit \in SUBSET (1..Len(cs)) : \E xs \in [hit -> LexScores] :
                bm25_results =
                    [j \in 1..Cardinality(hit) |->
                        LET i == CHOOSE i \in hit :
                                    Cardinality({h \in hit : h < i}) = j - 1
                        IN LexItem(cs[i], xs[i])]
    /\ spc = "vector"
    /\ query \in {<<"alpha">>, <<"beta">>}
    /\ top_k \in TopKs
    /\ query_embedding \in Vectors
    /\ sresult = [status |-> "none", results |-> <<>>]

NextFusion == SearchVector

SpecFusion == InitFusion /\ [][NextFusion]_vars

\* -------------------------------------------------------------------------
\* Properties of the fusion (SpecFusion)
\* -------------------------------------------------------------------------
\* the state of the worked example: A is the only lexical hit, with score
\* 10, and has similarity 0.2; B has similarity 0.9
WorkedExample ==
    /\ Len(memory_embeddings) = 2
    /\ memory_embeddings[1].content = ChunkA.content
    /\ memory_embeddings[2].content = ChunkB.content
    /\ CosineSimilarity(query_embedding, memory_embeddings[1].embedding) = Rat(2, 10)
    /\ CosineSimilarity(query_embedding, memory_embeddings[2].embedding) = Rat(9, 10)
    /\ Len(bm25_results) = 1
    /\ bm25_results[1].content = ChunkA.content
    /\ bm25_results[1].bm25_score = 10
    /\ top_k = 2

\* C10: the candidates are the contents of the lexical hits and of the
\* scanned vector rows together; a candidate's score is 0.7 times its
\* similarity (0 without a vector row) plus 0.3 times its lexical score over
\* the largest lexical score of the hits (0 when it is no hit or there are
\* no hits); in the worked example the scores are 0.44 for A and 0.63 for B
\* and B comes first.  Scores are exact rationals, not rounded floats.
C10_Fusion ==
    sresult.status = "ok" =>
    LET res == sresult.results
        lexKeys == {bm25_results[i].content : i \in 1..Len(bm25_results)}
        vecKeys == {memory_embeddings[i].content : i \in 1..Len(memory_embeddings)}
        cands == lexKeys \cup vecKeys
        maxLex == CHOOSE m \in {bm25_results[i].bm25_score : i \in 1..Len(bm25_results)} :
                     \A i \in 1..Len(bm25_results) : bm25_results[i].bm25_score <= m
        Lex(c) == IF c \in lexKeys
                  THEN (CHOOSE x \in {bm25_results[i] : i \in 1..Len(bm25_results)} :
                            x.content = c).bm25_score
                  ELSE 0
        Sim(c) == IF c \in vecKeys
                  THEN CosineSimilarity(
                           query_embedding,
                           (CHOOSE x \in {memory_embeddings[i] :
                                             i \in 1..Len(memory_embeddings)} :
                                x.content = c).embedding)
                  ELSE RInt(0)
    IN /\ \A i \in 1..Len(res) : res[i].content \in cands
       /\ \A i, j \in 1..Len(res) : res[i].content = res[j].content => i = j
       /\ Len(res) = IF top_k < Cardinality(cands) THEN top_k ELSE Cardinality(cands)
       /\ \A i \in 1..Len(res) :
             LET v == Sim(res[i].content)
                 x == res[i].score
             IN IF IsNaN(v) THEN IsNaN(x)
                ELSE /\ ~IsNaN(x)
                     /\ IF lexKeys = {}
                        THEN x.n * (10 * v.d) = x.d * (7 * v.n)
                        ELSE x.n * (10 * v.d * maxLex)
                                = x.d * (7 * v.n * maxLex + 3 * Lex(res[i].content) * v.d)
       /\ WorkedExample =>
             /\ res[1].content = ChunkB.content /\ res[1].score = [n |-> 63, d |-> 100]
             /\ res[2].content = ChunkA.content /\ res[2].score = [n |-> 11, d |-> 25]

\* the search of the worked example has returned B before A
C10_Witness ==
    /\ sresult.status = "ok"
    /\ WorkedExample
    /\ Len(sresult.results) = 2
    /\ sresult.results[1].content = ChunkB.content
    /\ sresult.results[2].content = ChunkA.content
\* -------------------------------------------------------------------------
\* _chunk_content on its own, line by line, over the texts a MEMORY.md that
\* is edited by hand can hold
\* -------------------------------------------------------------------------
MaxDocLines == 3

\* the lines texts are made of: empty, short, timestamp markers (one alone
\* on its line, one followed by text, one with nothing between its
\* brackets), a line that opens a bracket and never closes it, and long
\* lines around the two thresholds
DocLines ==
    {<<>>, <<"alpha">>, <<"[", "t1", "]">>, <<"[", "t2", "]", "alpha">>,
     <<"[", "]">>, <<"[", "alpha">>, <<"F319">>, <<"F800">>, <<"F1598">>,
     <<"F1599">>, <<"F1600">>}

\* content.split('\n') never is the empty list
Docs == UNION {[1..n -> DocLines] : n \in 1..MaxDocLines}

InitChunker ==
    /\ file = Missing
    /\ appends = 0
    /\ memory_fts = <<>>
    /\ memory_embeddings = <<>>
    /\ file_metadata = {}
    /\ clock = 0
    /\ indexed_text = Missing
    /\ IdleIndexer
    /\ IdleSearch
    /\ cpc = "loop"
    /\ doc_lines \in Docs
    /\ i_line = 0
    /\ chunker = ChunkerInit
    /\ chunk_list = <<>>

\* lines 296-328: one iteration of the loop
ChunkLine ==
    /\ cpc = "loop"
    /\ i_line < Len(doc_lines)
    /\ chunker' = ChunkerStep(chunker, i_line, doc_lines[i_line + 1], MemoryPath)
    /\ i_line' = i_line + 1
    /\ UNCHANGED <<cpc, doc_lines, chunk_list>>
    /\ UNCHANGED <<file, appends, store, indexer, searcher>>

\* lines 330-344: the remaining buffer is the final chunk
ChunkReturn ==
    /\ cpc = "loop"
    /\ i_line = Len(doc_lines)
    /\ chunk_list' = IF chunker.current_chunk # <<>>
                     THEN Append(chunker.chunks,
                                 MkChunk(chunker.current_chunk, MemoryPath,
                                         chunker.line_start, Len(doc_lines) - 1,
                                         chunker.current_timestamp))
                     ELSE chunker.chunks
    /\ cpc' = "done"
    /\ UNCHANGED <<doc_lines, i_line, chunker>>
    /\ UNCHANGED <<file, appends, store, indexer, searcher>>

NextChunker ==
    \/ ChunkLine
    \/ ChunkReturn

SpecChunker == InitChunker /\ [][NextChunker]_vars

\* -------------------------------------------------------------------------
\* Properties of the chunker (SpecChunker)
\* -------------------------------------------------------------------------
\* the text is '' : split gives one empty line
EmptyDocument == << <<>> >>

\* C13: chunking the empty text gives no chunk.
C13_EmptyDocument ==
    (cpc = "done" /\ doc_lines = EmptyDocument) => chunk_list = <<>>

RECURSIVE Weight(_)
\* the characters of the lines ls, each with its newline
Weight(ls) ==
    IF ls = <<>> THEN 0 ELSE LineLen(Head(ls)) + 1 + Weight(Tail(ls))

\* len(content): the last line has no newline
DocLength == Weight(doc_lines) - 1

\* C14: a text that is not empty and is shorter than chunk_size gives one
\* chunk, which holds all its lines, from line 0 to the last line.
C14_ShortDocument ==
    (cpc = "done" /\ doc_lines # EmptyDocument /\ DocLength < chunk_size)
    => /\ Len(chunk_list) = 1
       /\ chunk_list[1].line_start = 0
       /\ chunk_list[1].line_end = Len(doc_lines) - 1
       /\ chunk_list[1].content = doc_lines

\* the last r lines of ls
Suffix(ls, r) == SubSeq(ls, Len(ls) - r + 1, Len(ls))

\* the number of lines of the shortest suffix of ls that weighs at least
\* overlap; all of ls if none does
Retained(ls) ==
    CHOOSE r \in 1..Len(ls) :
        /\ Weight(Suffix(ls, r)) >= overlap \/ r = Len(ls)
        /\ \A q \in 1..(r - 1) : Weight(Suffix(ls, q)) < overlap

\* C15: the chunks of a text that is not empty are the lines of their line
\* ranges; the first starts at line 0, the last ends at the last line, each
\* later one starts at most one past the end of the one before, and a line
\* that a chunk shares with an earlier chunk is one of the lines retained as
\* overlap from the chunk before it.
C15_Coverage ==
    (cpc = "done" /\ doc_lines # EmptyDocument) =>
    LET c == chunk_list
        n == Len(doc_lines)
        Range(j) == c[j].line_start..c[j].line_end
    IN /\ Len(c) >= 1
       /\ c[1].line_start = 0
       /\ c[Len(c)].line_end = n - 1
       /\ \A j \in 1..Len(c) :
             /\ 0 <= c[j].line_start
             /\ c[j].line_start <= c[j].line_end
             /\ c[j].line_end <= n - 1
             /\ c[j].content = SubSeq(doc_lines, c[j].line_start + 1, c[j].line_end + 1)
       /\ UNION {Range(j) : j \in 1..Len(c)} = 0..(n - 1)
       /\ \A j \in 2..Len(c) :
             /\ c[j].line_start <= c[j - 1].line_end + 1
             /\ \A l \in Range(j) :
                   (\E m \in 1..(j - 1) : l \in Range(m))
                   => /\ l <= c[j - 1].line_end
                      /\ l > c[j - 1].line_end - Retained(c[j - 1].content)

\* a text of three lines has given two chunks that share a line, the second
\* going on past the end of the first
C15_Witness ==
    /\ cpc = "done"
    /\ Len(doc_lines) = 3
    /\ Len(chunk_list) >= 2
    /\ chunk_list[2].line_start <= chunk_list[1].line_end
    /\ chunk_list[2].line_end > chunk_list[1].line_end

\* C20: an iteration closes a chunk exactly when the buffer with the new
\* line, each line counted with its newline and the carried overlap
\* included, weighs at least chunk_size; the closed chunk is that buffer and
\* ends at the new line; the next buffer is the shortest suffix of it that
\* weighs at least overlap (all of it if none does), and the next
\* line_start is the index of the first retained line, between the closed
\* chunk's line_start and line_end.
C20_ClosingAndSeeding ==
    [][(cpc = "loop" /\ i_line' = i_line + 1) =>
       LET buf == Append(chunker.current_chunk, doc_lines[i_line + 1])
       IN IF Weight(buf) >= chunk_size
          THEN /\ Len(chunker'.chunks) = Len(chunker.chunks) + 1
               /\ SubSeq(chunker'.chunks, 1, Len(chunker.chunks)) = chunker.chunks
               /\ LET closed == chunker'.chunks[Len(chunker'.chunks)]
                  IN /\ closed.content = buf
                     /\ closed.line_start = chunker.line_start
                     /\ closed.line_end = i_line
                     /\ chunker'.current_chunk = Suffix(buf, Retained(buf))
                     /\ chunker'.current_length = Weight(chunker'.current_chunk)
                     /\ chunker'.line_start = i_line - Retained(buf) + 1
                     /\ closed.line_start <= chunker'.line_start
                     /\ chunker'.line_start <= closed.line_end
          ELSE /\ chunker'.chunks = chunker.chunks
               /\ chunker'.current_chunk = buf
               /\ chunker'.current_length = Weight(buf)
               /\ chunker'.line_start = chunker.line_start]_vars

\* a chunk has just been closed at a line too short to be the overlap alone:
\* two lines are retained and the next chunk starts one line earlier
C20_Witness ==
    /\ cpc = "loop"
    /\ Len(chunker.chunks) = 1
    /\ i_line = chunker.chunks[1].line_end + 1
    /\ Len(chunker.current_chunk) = 2
    /\ chunker.line_start = i_line - 2
    /\ Weight(Suffix(chunker.current_chunk, 1)) < overlap

\* the marker lines among lines 0..e of the text
MarkersUpTo(e) == {l \in 0..e : LET line == doc_lines[l + 1]
                                IN /\ line # <<>>
                                   /\ line[1] = "["
                                   /\ \E p \in 1..Len(line) : line[p] = "]"}

\* the text between the leading '[' and the first ']' of a marker line
Label(line) ==
    LET p == CHOOSE q \in 1..Len(line) :
                 line[q] = "]" /\ \A r \in 1..(q - 1) : line[r] # "]"
    IN [x \in 1..(p - 2) |-> line[x + 1]]

\* the timestamp of every chunk is the label of the last marker line at or
\* before the chunk's last line, and empty when there is none
LabelOfLastMarker ==
    \A j \in 1..Len(chunk_list) :
        LET markers == MarkersUpTo(chunk_list[j].line_end)
        IN IF markers = {}
           THEN chunk_list[j].timestamp = <<>>
           ELSE LET last == CHOOSE l \in markers : \A m \in markers : m <= l
                IN chunk_list[j].timestamp = Label(doc_lines[last + 1])

\* C21 as stated: every chunk, closed or final, carries the label of the
\* most recent marker line at or before its last line, counted from the
\* start of the text, and the timestamp is empty exactly when no marker
\* line occurs at or before the chunk's last line.
C21_TimestampAsStated ==
    cpc = "done" =>
        /\ LabelOfLastMarker
        /\ \A j \in 1..Len(chunk_list) :
              (chunk_list[j].timestamp = <<>>)
              <=> (MarkersUpTo(chunk_list[j].line_end) = {})

\* C21: every chunk, closed or final, carries the label of the most recent
\* marker line at or before its last line, counted from the start of the
\* text; the timestamp is empty when no marker line occurs at or before the
\* chunk's last line, and otherwise only when the most recent one has
\* nothing between its leading '[' and its first ']'.
C21_TimestampLabelling ==
    cpc = "done" =>
        /\ LabelOfLastMarker
        /\ \A j \in 1..Len(chunk_list) :
              LET markers == MarkersUpTo(chunk_list[j].line_end)
              IN (chunk_list[j].timestamp = <<>>)
                 <=> \/ markers = {}
                     \/ \A l \in markers :
                           (\A m \in markers : m <= l)
                           => doc_lines[l + 1][2] = "]"

\* a chunk closed at the size target carries the label of a marker that is
\* not among its own lines, and a later chunk carries a later marker's
C21_Witness ==
    /\ cpc = "done"
    /\ Len(chunk_list) >= 2
    /\ \E j \in 2..Len(chunk_list) :
          /\ j <= Len(chunker.chunks)
          /\ chunk_list[j].timestamp = <<"t1">>
          /\ MarkersUpTo(chunk_list[j].line_end) # {}
          /\ \A l \in MarkersUpTo(chunk_list[j].line_end) :
                l < chunk_list[j].line_start

\* the chunk c is lines line_start..line_end of the text, a range within it
RangeConsistent(c) ==
    /\ 0 <= c.line_start
    /\ c.line_start <= c.line_end
    /\ c.line_end <= Len(doc_lines) - 1
    /\ c.content = [x \in 1..(c.line_end - c.line_start + 1)
                       |-> doc_lines[c.line_start + x]]

\* C22: every chunk of every text, the final one as well as those closed at
\* the size target, has 0 <= line_start <= line_end <= index of the last
\* line and holds exactly the lines line_start..line_end of the text; over
\* the chunks closed at the size target line_end is strictly increasing.
C22_RangeConsistency ==
    /\ \A j \in 1..Len(chunker.chunks) : RangeConsistent(chunker.chunks[j])
    /\ \A j \in 2..Len(chunker.chunks) :
          chunker.chunks[j - 1].line_end < chunker.chunks[j].line_end
    /\ cpc = "done" =>
          /\ SubSeq(chunk_list, 1, Len(chunker.chunks)) = chunker.chunks
          /\ \A j \in 1..Len(chunk_list) : RangeConsistent(chunk_list[j])

\* two chunks were closed at the size target and the final chunk, made of
\* the lines retained from the second, ends at the same line as it
C22_Witness ==
    /\ cpc = "done"
    /\ Len(chunker.chunks) = 2
    /\ Len(chunk_list) = 3
    /\ chunk_list[3].line_end = chunk_list[2].line_end
    /\ chunk_list[3].line_start > chunk_list[2].line_start

====
